---- MODULE Spec2Model ----
(***************************************************************************)
(* AlphaFragment: domain-aware fragmentation of a protein sequence.        *)
(*                                                                         *)
(* The module models src/src/alphafragment:                                *)
(*   classes.py                 Domain, Protein, ProteinSubsection         *)
(*   fragmentation_methods.py   validation, merge_overlapping_domains,     *)
(*                              check_valid_cutpoint, find_next_start,     *)
(*                              recursive_fragmentation, break_in_half     *)
(*   long_domains.py            handle_long_domains                        *)
(*   fragment_protein.py        fragment_protein (the orchestrator)        *)
(*                                                                         *)
(* Residues are 0-based.  A Domain is the record [id, start, end] with     *)
(* inclusive ends; a fragment is the pair <<start, end>> with Python       *)
(* slicing semantics (end exclusive).  Python's None is the integer        *)
(* NoneVal, which no residue position can take.                            *)
(***************************************************************************)
EXTENDS Integers, Sequences, FiniteSets, TLC

(***************************************************************************)
(* Bounds of the model.                                                    *)
(***************************************************************************)
MaxSeqLen == 5        \* longest protein sequence
MaxLenParam == 3      \* largest value in a length profile
MaxDomains == 2       \* most domains on the protein given to fragment_protein
MaxIncrease == 1      \* largest len_increase
MaxBudget == 1        \* most deadline checks that pass before the deadline
MaxTimeouts == 2      \* most searches of one call that meet a passed deadline
MaxCutPos == 4        \* largest residue in the check_valid_cutpoint inputs
MaxCutDomains == 2    \* longest domain list given to check_valid_cutpoint
MaxMergePos == 3      \* largest residue in the merge_overlapping_domains inputs
MaxMergeDomains == 3  \* longest list given to merge_overlapping_domains
MaxSearchDomains == 1 \* longest domain list given to recursive_fragmentation
MaxSearchBudget == 3  \* most deadline checks that pass in a direct search
MaxPaeLen == 13       \* largest side of a PAE matrix
MaxFragSeqLen == 3    \* longest sequence of a protein given to add_fragment
MaxFragments == 2     \* most fragments stored by add_fragment calls
MaxAccumulated == 2   \* most cutpoints in the accumulator a nested search is given
MaxGapSeqLen == 6     \* longest protein with a gap between two long domains
MaxWidenSeqLen == 10  \* longest protein with a widening before its last subsection

\* A sparse PAE matrix has at most one confident residue pair per 4 residues
\* of the largest matrix.
MaxConfident == MaxPaeLen \div 4

NoneVal == 0 - 1

SetMin(S) == CHOOSE x \in S : \A y \in S : x <= y
SetMax(S) == CHOOSE x \in S : \A y \in S : x >= y
IntMin(a, b) == IF a <= b THEN a ELSE b
IntMax(a, b) == IF a >= b THEN a ELSE b

(***************************************************************************)
(* classes.py                                                              *)
(***************************************************************************)
\* Domain.__init__: start and end non-negative, start <= end.
Domain(id, start, end) == [id |-> id, start |-> start, end |-> end]

DomainOK(d) == d.start >= 0 /\ d.end >= 0 /\ d.start <= d.end

\* Protein.__init__ with the default first_res = 0 and last_res = len - 1.
\* seqlen stands for len(sequence); isSub tells a ProteinSubsection apart;
\* isProtein is isinstance(x, Protein).
\* An empty sequence (n = 0) leaves last_res = None, which is NoneVal.
Protein(n, domain_list) ==
    [first_res |-> 0, last_res |-> n - 1, seqlen |-> n,
     domain_list |-> domain_list, isSub |-> FALSE, isProtein |-> TRUE]

\* An argument that is no Protein (the tests pass a string).
NotAProtein == [Protein(1, <<>>) EXCEPT !.isProtein = FALSE]

\* ProteinSubsection.__init__ raises ValueError on these bounds.
SubsectionOK(parent, first_res, last_res) ==
    ~(first_res < 0 \/ last_res > parent.seqlen - 1 \/ first_res >= last_res)

\* ProteinSubsection: the sequence is parent.sequence[first_res:last_res+1],
\* the domain list is the parent's.
ProteinSubsection(parent, first_res, last_res) ==
    [first_res |-> first_res, last_res |-> last_res,
     seqlen |-> IntMin(last_res + 1, parent.seqlen) - first_res,
     domain_list |-> parent.domain_list, isSub |-> TRUE, isProtein |-> TRUE]

\* The arguments of an add_fragment call. shape is "two" for
\* add_fragment(start, end), "tuple" for add_fragment((start, end)),
\* "badtuple" for a single tuple that does not hold two items and "other"
\* for any other argument list; ints tells whether start and end are both
\* instances of int.
FragmentArgs(shape, ints, start, end) ==
    [shape |-> shape, ints |-> ints, start |-> start, end |-> end]

\* The two sequence-bound checks of add_fragment.
FitsSequence(p, start, end) ==
    ~(end > p.last_res + 1) /\ ~(start < p.first_res)

\* Protein.add_fragment on a protein p whose fragment list is fragment_list:
\* the exception raised (kind "None" when the call returns) and the
\* fragment list after the call. A protein with an empty sequence has
\* last_res = None, and None + 1 raises TypeError.
add_fragment(p, fragment_list, args) ==
    LET raise(kind) == [kind |-> kind, fragment_list |-> fragment_list] IN
    IF args.shape \notin {"two", "tuple"} THEN raise("ValueError")
    ELSE IF ~(args.ints /\ 0 <= args.start /\ args.start < args.end)
    THEN raise("ValueError")
    ELSE IF p.last_res = NoneVal THEN raise("TypeError")
    ELSE IF ~FitsSequence(p, args.start, args.end) THEN raise("ValueError")
    ELSE IF /\ fragment_list # <<>>
            /\ args.start < fragment_list[Len(fragment_list)][1]
    THEN raise("ValueError")
    ELSE [kind |-> "None",
          fragment_list |-> Append(fragment_list, <<args.start, args.end>>)]

(***************************************************************************)
(* fragmentation_methods.py                                                *)
(***************************************************************************)
\* Mutant of ValidParams: overlap['max'] is not compared with length['min'].
ValidParams_NoCrossCheck(len, ov) ==
    /\ ~(len.min > len.max)
    /\ (len.min <= len.ideal /\ len.ideal <= len.max)
    /\ ~(len.min <= 0)
    /\ ~(ov.min > ov.max)
    /\ ~(ov.min < 0)
    /\ (ov.min <= ov.ideal /\ ov.ideal <= ov.max)

\* validate_fragmentation_parameters: the checks on the two profiles
\* (the values of the model are integers and all keys are present).
ValidParams(len, ov) ==
    /\ ~(len.min > len.max)
    /\ (len.min <= len.ideal /\ len.ideal <= len.max)
    /\ ~(len.min <= 0)
    /\ ~(ov.min > ov.max)
    /\ ~(ov.min < 0)
    /\ (ov.min <= ov.ideal /\ ov.ideal <= ov.max)
    /\ ~(ov.max >= len.min)

\* sorted(domains, key=lambda x: x.start): a stable insertion sort.
RECURSIVE InsertByStart(_, _)
InsertByStart(sorted, d) ==
    IF sorted = <<>> THEN <<d>>
    ELSE IF Head(sorted).start <= d.start
         THEN <<Head(sorted)>> \o InsertByStart(Tail(sorted), d)
         ELSE <<d>> \o sorted

RECURSIVE SortByStart(_)
SortByStart(domains) ==
    IF domains = <<>> THEN <<>>
    ELSE InsertByStart(SortByStart(SubSeq(domains, 1, Len(domains) - 1)),
                       domains[Len(domains)])

\* Mutant of MergeTest: domains that only touch are folded too.
MergeTest_Touching(last, domain) == domain.start <= last.end + 1

\* The test of the sweep: does the next domain fold into the running one?
MergeTest(last, domain) == domain.start <= last.end

RECURSIVE MergeSweep(_, _)
MergeSweep(combined, rest) ==
    IF rest = <<>> THEN combined
    ELSE LET domain == Head(rest) IN
         IF combined = <<>> THEN MergeSweep(<<domain>>, Tail(rest))
         ELSE LET last == combined[Len(combined)] IN
              IF MergeTest(last, domain)
              THEN MergeSweep(
                     [combined EXCEPT ![Len(combined)] =
                        Domain(last.id, last.start, IntMax(last.end, domain.end))],
                     Tail(rest))
              ELSE MergeSweep(Append(combined, domain), Tail(rest))

merge_overlapping_domains(domains) == MergeSweep(<<>>, SortByStart(domains))

\* Mutant of SplitsDomain: the residue before the cut is compared strictly.
SplitsDomain_Strict(res, domain) ==
    /\ domain.start <= res /\ res <= domain.end
    /\ domain.start < res - 1 /\ res - 1 <= domain.end

\* Mutant of SplitsDomain: only the residue at the cut is looked at.
SplitsDomain_AtCutOnly(res, domain) ==
    domain.start <= res /\ res <= domain.end

\* Would slicing before residue res split this domain?
SplitsDomain(res, domain) ==
    /\ domain.start <= res /\ res <= domain.end
    /\ domain.start <= res - 1 /\ res - 1 <= domain.end

check_valid_cutpoint(res, domains, sequence_end) ==
    IF res > sequence_end + 1 THEN FALSE
    ELSE IF res < 0 THEN FALSE
    ELSE IF res = sequence_end + 1 THEN TRUE
    ELSE ~(\E i \in DOMAIN domains : SplitsDomain(res, domains[i]))

\* find_next_start: overlaps ideal..max first (smallest first), then
\* ideal-1 down to min; a candidate found in the second scan is dropped
\* when it is falsy (position 0).
find_next_start(res, protein, domains, overlap) ==
    LET up == {o \in overlap.ideal .. overlap.max :
                 check_valid_cutpoint(res - o, domains, protein.last_res)}
        down == {o \in overlap.min .. (overlap.ideal - 1) :
                 check_valid_cutpoint(res - o, domains, protein.last_res)}
    IN IF up # {} THEN res - SetMin(up)
       ELSE IF down # {}
            THEN LET possible_current_overlap == res - SetMax(down)
                 IN IF possible_current_overlap # 0
                    THEN possible_current_overlap ELSE NoneVal
            ELSE NoneVal

\* Mutant of LengthOrder: the candidates are tried from min up to max.
LengthOrder_Ascending(length) ==
    [k \in 1 .. (length.max - length.min + 1) |-> length.min + (k - 1)]

\* Mutant of LengthOrder: the ascending candidates go one past max.
LengthOrder_PastMax(length) ==
    [k \in 1 .. (length.max - length.min + 2) |->
        IF k <= length.max - length.ideal + 2
        THEN length.ideal + (k - 1)
        ELSE length.ideal - (k - (length.max - length.ideal + 2))]

\* The candidate lengths in the order the search tries them: ideal..max,
\* then ideal-1 down to min.
LengthOrder(length) ==
    [k \in 1 .. (length.max - length.min + 1) |->
        IF k <= length.max - length.ideal + 1
        THEN length.ideal + (k - 1)
        ELSE length.ideal - (k - (length.max - length.ideal + 1))]

\* The accumulator of cutpoints.  fragment_protein passes an integer in its
\* place: isList = FALSE is a value without an append method.
ListCutpoints(items) == [isList |-> TRUE, items |-> items]
IntCutpoints == [isList |-> FALSE, items |-> <<>>]

SearchResult(kind, cutpoints, budget) ==
    [kind |-> kind, cutpoints |-> cutpoints, budget |-> budget]

\* The wall clock is a budget: the number of deadline checks that still
\* pass.  NoLimit is a call without time_limit.
NoLimit == 0 - 1
DeadlinePassed(budget) == budget = 0
Spend(budget) == IF budget > 0 THEN budget - 1 ELSE budget

\* Mutant of Propagates: only a fragment list or an exception ends the loop.
Propagates_NotTimeout(result) == result.kind \notin {"None", "TIME_LIMIT_EXCEEDED"}

\* What the recursive call returned ends the loop over the candidates: the
\* timeout signal, a fragment list (or an exception on its way up).
Propagates(result) == result.kind # "None"

\* Mutant of Pop: the cutpoint pushed before a failed nested call stays.
Pop_Skipped(cutpoints) == cutpoints

\* cutpoints.pop(): the accumulator without its last entry.
Pop(cutpoints) ==
    ListCutpoints(SubSeq(cutpoints.items, 1, Len(cutpoints.items) - 1))

\* recursive_fragmentation, and the loop over its candidate lengths from
\* the k-th candidate on.  The result is kind "list" (cutpoints),
\* "TIME_LIMIT_EXCEEDED", "None", or the exception raised.
RECURSIVE recursive_fragmentation(_, _, _, _, _, _, _)
RECURSIVE TryLengths(_, _, _, _, _, _, _, _)
TryLengths(protein, domains, fragment_start, length, overlap, cutpoints, budget, k) ==
    IF k > Len(LengthOrder(length))
    THEN SearchResult("None", cutpoints, budget)
    ELSE
      LET res == fragment_start + LengthOrder(length)[k]
          later == TryLengths(protein, domains, fragment_start, length, overlap,
                              cutpoints, budget, k + 1)
      IN
      IF ~check_valid_cutpoint(res, domains, protein.last_res) THEN later
      ELSE IF res = protein.last_res + 1
      THEN IF cutpoints.isList
           THEN SearchResult("list",
                    ListCutpoints(Append(cutpoints.items, <<fragment_start, res>>)),
                    budget)
           ELSE SearchResult("AttributeError", cutpoints, budget)
      ELSE
        LET next_start == find_next_start(res, protein, domains, overlap) IN
        IF next_start = NoneVal \/ next_start = 0 THEN later
        ELSE IF ~cutpoints.isList
        THEN SearchResult("AttributeError", cutpoints, budget)
        ELSE
          LET result == recursive_fragmentation(protein, domains, next_start,
                            length, overlap,
                            ListCutpoints(Append(cutpoints.items, <<fragment_start, res>>)),
                            budget)
          IN
          IF Propagates(result) THEN result
          ELSE TryLengths(protein, domains, fragment_start, length, overlap,
                 Pop(result.cutpoints), result.budget, k + 1)

recursive_fragmentation(protein, domains, fragment_start, length, overlap, cutpoints, budget) ==
    IF ~ValidParams(length, overlap)
    THEN SearchResult("ValueError", cutpoints, budget)
    ELSE IF DeadlinePassed(budget)
    THEN SearchResult("TIME_LIMIT_EXCEEDED", cutpoints, budget)
    ELSE TryLengths(protein, domains, fragment_start, length, overlap,
                    cutpoints, Spend(budget), 1)

\* break_in_half.check_shift for one direction: "accept" the cut, "stop"
\* the scan (length constraint), or "continue".
MinLenLeft(protein, length, current_res, direction) ==
    IF direction = 1
    THEN protein.last_res - current_res < length.min
    ELSE current_res - protein.first_res < length.min

CheckDirection(protein, length, overlap, current_res, direction) ==
    IF /\ check_valid_cutpoint(current_res, protein.domain_list, protein.last_res)
       /\ find_next_start(current_res, protein, protein.domain_list, overlap) # NoneVal
    THEN "accept"
    ELSE IF MinLenLeft(protein, length, current_res, direction) THEN "stop"
    ELSE "continue"

\* The scan outward from the midpoint: the accepted cut, or NoneVal.
RECURSIVE ScanShift(_, _, _, _, _)
ScanShift(protein, length, overlap, midpoint, shift) ==
    LET fwd == CheckDirection(protein, length, overlap, midpoint + shift, 1)
        bwd == CheckDirection(protein, length, overlap, midpoint - shift, 0 - 1)
    IN IF fwd = "accept" THEN midpoint + shift
       ELSE IF fwd = "stop" THEN NoneVal
       ELSE IF bwd = "accept" THEN midpoint - shift
       ELSE IF bwd = "stop" THEN NoneVal
       ELSE ScanShift(protein, length, overlap, midpoint, shift + 1)

\* The bounds break_in_half gives to the two ProteinSubsection constructors
\* for an accepted cut: [first_res, cut] and [next start, last_res].
HalfBounds(protein, overlap, valid_cutpoint) ==
    <<[first_res |-> protein.first_res, last_res |-> valid_cutpoint],
      [first_res |-> find_next_start(valid_cutpoint, protein,
                                     protein.domain_list, overlap),
       last_res |-> protein.last_res]>>

\* ProteinSubsection.__init__ takes (parent_protein, first_res, last_res);
\* break_in_half calls it with the keywords parent_protein, start and end.
SubsectionKeywords == {"parent_protein", "first_res", "last_res"}
BreakInHalfKeywords == {"parent_protein", "start", "end"}

\* break_in_half: kind "None", "halves" (the two subsections), or the
\* exception a ProteinSubsection constructor raised.  bounds are the bounds
\* computed for the halves, cut the accepted cut.
break_in_half(parent_protein, protein, length, overlap) ==
    LET midpoint == (protein.first_res + protein.last_res) \div 2
        valid_cutpoint == ScanShift(protein, length, overlap, midpoint, 0)
        bounds == HalfBounds(protein, overlap, valid_cutpoint)
    IN IF valid_cutpoint = NoneVal
       THEN [kind |-> "None", halves |-> <<>>, bounds |-> <<>>, cut |-> NoneVal]
       ELSE IF ~(BreakInHalfKeywords \subseteq SubsectionKeywords)
       THEN [kind |-> "TypeError", halves |-> <<>>, bounds |-> bounds,
             cut |-> valid_cutpoint]
       ELSE IF \A i \in 1 .. 2 :
                 SubsectionOK(parent_protein, bounds[i].first_res, bounds[i].last_res)
       THEN [kind |-> "halves",
             halves |-> [i \in 1 .. 2 |->
                           ProteinSubsection(parent_protein, bounds[i].first_res,
                                             bounds[i].last_res)],
             bounds |-> bounds, cut |-> valid_cutpoint]
       ELSE [kind |-> "ValueError", halves |-> <<>>, bounds |-> bounds,
             cut |-> valid_cutpoint]

(***************************************************************************)
(* long_domains.py                                                         *)
(***************************************************************************)
\* The overlaps add_overlap tries, in order: ideal..max, then ideal-1..0.
OverlapOrder(overlap) ==
    [k \in 1 .. (overlap.max + 1) |->
        IF k <= overlap.max - overlap.ideal + 1
        THEN overlap.ideal + (k - 1)
        ELSE overlap.ideal - (k - (overlap.max - overlap.ideal + 1))]

\* handle_long_domains.add_overlap: the first position in that order that
\* is a valid cutpoint, else the position itself.
add_overlap(protein, overlap, position, direction) ==
    LET order == OverlapOrder(overlap)
        ok == {k \in DOMAIN order :
                 check_valid_cutpoint(position + direction * order[k],
                                      protein.domain_list, protein.last_res)}
    IN IF ok # {} THEN position + direction * order[SetMin(ok)] ELSE position

\* Mutant of IsLong: the span is compared with length['min'].
IsLong_MinKey(domain, length) == domain.end - domain.start + 1 >= length.min

\* A merged domain is long when its span reaches length['max'].
IsLong(domain, length) == domain.end - domain.start + 1 >= length.max

RECURSIVE SelectLong(_, _)
SelectLong(combined_domains, length) ==
    IF combined_domains = <<>> THEN <<>>
    ELSE IF IsLong(Head(combined_domains), length)
         THEN <<Head(combined_domains)>> \o SelectLong(Tail(combined_domains), length)
         ELSE SelectLong(Tail(combined_domains), length)

DomainLen(d) == d.end - d.start + 1

\* The boundary [start, end] of one long domain: merged with a protein end
\* closer than length['min'], and with the gap to a longer (or, on the end
\* side, equally long) long domain closer than length['min'].
BoundaryStart(protein, length, long_domain_list, long_domain) ==
    LET start == IF long_domain.start < length.min
                 THEN protein.first_res ELSE long_domain.start
        others == {long_domain_list[j].end : j \in
                     {j \in DOMAIN long_domain_list :
                        /\ long_domain_list[j] # long_domain
                        /\ long_domain.start > long_domain_list[j].end
                        /\ long_domain.start - long_domain_list[j].end - 1 < length.min
                        /\ DomainLen(long_domain) < DomainLen(long_domain_list[j])}}
    IN SetMin({start} \cup others)

\* Mutant of BoundaryEnd: the end side compares the lengths strictly too.
BoundaryEnd_StrictTie(protein, length, long_domain_list, long_domain) ==
    LET end == IF protein.last_res - long_domain.end < length.min
               THEN protein.last_res ELSE long_domain.end
        others == {long_domain_list[j].start : j \in
                     {j \in DOMAIN long_domain_list :
                        /\ long_domain_list[j] # long_domain
                        /\ long_domain.end < long_domain_list[j].start
                        /\ long_domain_list[j].start - long_domain.end - 1 < length.min
                        /\ DomainLen(long_domain) < DomainLen(long_domain_list[j])}}
    IN SetMax({end} \cup others)

BoundaryEnd(protein, length, long_domain_list, long_domain) ==
    LET end == IF protein.last_res - long_domain.end < length.min
               THEN protein.last_res ELSE long_domain.end
        others == {long_domain_list[j].start : j \in
                     {j \in DOMAIN long_domain_list :
                        /\ long_domain_list[j] # long_domain
                        /\ long_domain.end < long_domain_list[j].start
                        /\ long_domain_list[j].start - long_domain.end - 1 < length.min
                        /\ DomainLen(long_domain) <= DomainLen(long_domain_list[j])}}
    IN SetMax({end} \cup others)

\* Mutant of LongFragment: the end is not converted to a slicing index.
LongFragment_InclusiveEnd(protein, overlap, start, end) ==
    <<IntMax(0, add_overlap(protein, overlap, start, 0 - 1)),
      IntMin(protein.last_res, add_overlap(protein, overlap, end, 1))>>

\* The fragment emitted for a boundary: overlap added on both sides,
\* clipped to the protein, converted to slicing indexes.
LongFragment(protein, overlap, start, end) ==
    LET adjusted_start == IntMax(0, add_overlap(protein, overlap, start, 0 - 1))
        adjusted_end == IntMin(protein.last_res, add_overlap(protein, overlap, end, 1))
    IN <<adjusted_start, adjusted_end + 1>>

\* The subsection in front of a long domain: from the residue after the
\* previous boundary to the residue before the domain.
LeadSubsection(prev_end, long_domain) ==
    [first_res |-> prev_end + 1, last_res |-> long_domain.start - 1]

\* The loop over the long domains, from the i-th on.  acc carries prev_end,
\* the subsections and fragments so far, and whether ProteinSubsection raised.
RECURSIVE LongLoop(_, _, _, _, _, _)
LongLoop(protein, length, overlap, long_domain_list, i, acc) ==
    IF i > Len(long_domain_list) \/ acc.raised THEN acc
    ELSE
      LET long_domain == long_domain_list[i]
          start == BoundaryStart(protein, length, long_domain_list, long_domain)
          end == BoundaryEnd(protein, length, long_domain_list, long_domain)
          lead == LeadSubsection(acc.prev_end, long_domain)
          wantLead == acc.prev_end < start - 1
      IN
      IF wantLead /\ ~SubsectionOK(protein, lead.first_res, lead.last_res)
      THEN [acc EXCEPT !.raised = TRUE]
      ELSE LongLoop(protein, length, overlap, long_domain_list, i + 1,
             [prev_end |-> end,
              subsections |->
                 IF wantLead
                 THEN Append(acc.subsections,
                             ProteinSubsection(protein, lead.first_res, lead.last_res))
                 ELSE acc.subsections,
              fragments |-> Append(acc.fragments,
                                   LongFragment(protein, overlap, start, end)),
              raised |-> FALSE])

\* handle_long_domains: [subsections, fragments, raised].
handle_long_domains(protein, length, overlap) ==
    LET combined_domains == merge_overlapping_domains(protein.domain_list)
        long_domain_list == SelectLong(combined_domains, length)
        acc == LongLoop(protein, length, overlap, long_domain_list, 1,
                        [prev_end |-> 0, subsections |-> <<>>,
                         fragments |-> <<>>, raised |-> FALSE])
    IN IF acc.raised THEN acc
       ELSE IF acc.prev_end = 0
       THEN [acc EXCEPT !.subsections = Append(acc.subsections, protein)]
       ELSE IF acc.prev_end < protein.last_res
       THEN IF SubsectionOK(protein, acc.prev_end + 1, protein.last_res)
            THEN [acc EXCEPT !.subsections =
                     Append(acc.subsections,
                            ProteinSubsection(protein, acc.prev_end + 1, protein.last_res))]
            ELSE [acc EXCEPT !.raised = TRUE]
       ELSE acc

(***************************************************************************)
(* AFprep_func/alphafold_db_domain_identification.py                       *)
(*                                                                         *)
(* A PAE matrix is a sequence of rows; residue r is row and column r + 1.  *)
(***************************************************************************)
\* custom_params is a record with the three thresholds and given = TRUE,
\* or NoCustomParams for None.
NoCustomParams ==
    [given |-> FALSE, res_dist_cutoff |-> NoneVal, close_pae_val |-> NoneVal,
     further_pae_val |-> NoneVal]

\* The method and custom_params the function accepts.
MethodOK(method, custom_params) ==
    \/ method \in {"cautious", "definite"}
    \/ method = "custom" /\ custom_params.given

\* Mutant of MethodParams: the two presets have each other's thresholds.
MethodParams_PresetsSwapped(method, custom_params) ==
    IF method = "definite"
    THEN [res_dist_cutoff |-> 10, close_pae_val |-> 4, further_pae_val |-> 11]
    ELSE IF method = "cautious"
    THEN [res_dist_cutoff |-> 0, close_pae_val |-> 2, further_pae_val |-> 2]
    ELSE [res_dist_cutoff |-> custom_params.res_dist_cutoff,
          close_pae_val |-> custom_params.close_pae_val,
          further_pae_val |-> custom_params.further_pae_val]

\* The thresholds of a grouping method.
MethodParams(method, custom_params) ==
    IF method = "cautious"
    THEN [res_dist_cutoff |-> 10, close_pae_val |-> 4, further_pae_val |-> 11]
    ELSE IF method = "definite"
    THEN [res_dist_cutoff |-> 0, close_pae_val |-> 2, further_pae_val |-> 2]
    ELSE [res_dist_cutoff |-> custom_params.res_dist_cutoff,
          close_pae_val |-> custom_params.close_pae_val,
          further_pae_val |-> custom_params.further_pae_val]

\* Mutant of find_domain_by_res: the last residue of a domain is not in it.
find_domain_by_res_Strict(domains, res) ==
    LET holding == {i \in DOMAIN domains :
                      domains[i].start <= res /\ res < domains[i].end}
    IN IF holding = {} THEN 0 ELSE SetMin(holding)

\* find_domain_by_res: the position of the first domain that holds res,
\* 0 for None.
find_domain_by_res(domains, res) ==
    LET holding == {i \in DOMAIN domains :
                      domains[i].start <= res /\ res <= domains[i].end}
    IN IF holding = {} THEN 0 ELSE SetMin(holding)

\* Are res1 and res2 in the same domain, by PAE and distance?
is_same_domain(pae, params, res1, res2) ==
    LET res_difference == IF res2 >= res1 THEN res2 - res1 ELSE res1 - res2
        relative_pae == IntMin(pae[res1 + 1][res2 + 1], pae[res2 + 1][res1 + 1])
    IN \/ res_difference <= params.res_dist_cutoff /\ relative_pae < params.close_pae_val
       \/ res_difference > params.res_dist_cutoff /\ relative_pae < params.further_pae_val

\* Mutant of CandidateMates: the scan stops at res1 + 4, one residue nearer.
CandidateMates_Nearer(pae, res1) == (res1 + 4) .. (Len(pae) - 1)

\* The residues the inner loop scans for res1: len(pae)-1 down to res1 + 5.
CandidateMates(pae, res1) == (res1 + 5) .. (Len(pae) - 1)

\* The residue at which the inner loop breaks: the farthest domain mate of
\* res1, or NoneVal when the scan ends without one.
FarthestMate(pae, params, res1) ==
    LET mates == {res2 \in CandidateMates(pae, res1) :
                    is_same_domain(pae, params, res1, res2)}
    IN IF mates = {} THEN NoneVal ELSE SetMax(mates)

\* Mutant of LinkPair: a pair that reaches past the domain of res1 starts a
\* new domain instead of extending that one.
LinkPair_NoExtend(domains, res1, res2) ==
    LET domain_res2 == find_domain_by_res(domains, res2)
    IN IF domain_res2 = 0
       THEN Append(domains, Domain(Len(domains) + 1, res1, res2))
       ELSE domains

\* What a same-domain pair does to the domain list: extend the domain of
\* res1, or start a new domain, or nothing when res2 is in a domain.
LinkPair(domains, res1, res2) ==
    LET domain_res1 == find_domain_by_res(domains, res1)
        domain_res2 == find_domain_by_res(domains, res2)
    IN IF domain_res1 # 0 /\ domain_res2 = 0
       THEN [domains EXCEPT ![domain_res1].end = IntMax(domains[domain_res1].end, res2)]
       ELSE IF domain_res1 = 0 /\ domain_res2 = 0
       THEN Append(domains, Domain(Len(domains) + 1, res1, res2))
       ELSE domains

\* The outer loop from res1 on.
RECURSIVE PaeLoop(_, _, _, _)
PaeLoop(pae, params, res1, domains) ==
    IF res1 >= Len(pae) THEN domains
    ELSE LET res2 == FarthestMate(pae, params, res1)
         IN PaeLoop(pae, params, res1 + 1,
                    IF res2 = NoneVal THEN domains ELSE LinkPair(domains, res1, res2))

\* The steps of the outer loop from res1 on at which the inner loop breaks:
\* the pair found and the domain list as it is when the pair is looked up.
RECURSIVE PaeSteps(_, _, _, _)
PaeSteps(pae, params, res1, domains) ==
    IF res1 >= Len(pae) THEN {}
    ELSE LET res2 == FarthestMate(pae, params, res1)
         IN IF res2 = NoneVal
            THEN PaeSteps(pae, params, res1 + 1, domains)
            ELSE {[res1 |-> res1, res2 |-> res2, domains |-> domains]}
                 \cup PaeSteps(pae, params, res1 + 1, LinkPair(domains, res1, res2))

\* find_domains_from_pae: [kind, domains], kind "list" or "ValueError".
find_domains_from_pae(pae, method, custom_params) ==
    IF pae = <<>> \/ \E r \in DOMAIN pae : Len(pae[r]) # Len(pae)
    THEN [kind |-> "ValueError", domains |-> <<>>]
    ELSE IF ~MethodOK(method, custom_params)
    THEN [kind |-> "ValueError", domains |-> <<>>]
    ELSE [kind |-> "list",
          domains |-> PaeLoop(pae, MethodParams(method, custom_params), 0, <<>>)]

(***************************************************************************)
(* fragment_protein.py: the orchestrator as a state machine.               *)
(***************************************************************************)
VARIABLES
    protein,           \* the Protein argument
    length,            \* the length profile (its 'max' is widened in place)
    overlap,           \* the overlap profile
    len_increase,      \* the widening step
    requested_max,     \* length['max'] as the caller passed it (never written)
    pc,                \* "start", "validated", "loop", "done", "raised"
    subsections,       \* the subsections of the current round
    next_subsections,  \* the halves queued for the next round
    fragments,         \* the fragments collected so far
    idx,               \* position of the for loop in subsections
    max_len,           \* max_len of the subsection being processed
    original_max_len,  \* original_max_len of that subsection
    event,             \* what the last step did
    bih,               \* the last break_in_half call: its subsection and result
    timeouts,          \* searches that returned the timeout signal so far
    ret,               \* what fragment_protein returned or raised
    call,              \* the arguments of a pure function under check
    out                \* its result

vars == <<protein, length, overlap, len_increase, requested_max, pc, subsections,
          next_subsections, fragments, idx, max_len, original_max_len,
          event, bih, timeouts, ret, call, out>>

Profile(min, ideal, max) == [min |-> min, ideal |-> ideal, max |-> max]

\* Profiles as a caller may pass them, valid or not.
LengthProfiles ==
    {Profile(a, b, c) : a \in 0 .. MaxLenParam, b \in 1 .. MaxLenParam,
                        c \in 1 .. MaxLenParam}
OverlapProfiles ==
    {Profile(a, b, c) : a \in 0 .. (MaxLenParam - 1), b \in 0 .. (MaxLenParam - 1),
                        c \in 0 .. (MaxLenParam - 1)}

\* Domain lists inside a protein of n residues, by ascending (start, end),
\* with ids 1, 2, ... in list order.
DomainPairs(n) == {<<s, e>> : s \in 0 .. (n - 1), e \in 0 .. (n - 1)}
PairLE(p, q) == p[1] < q[1] \/ (p[1] = q[1] /\ p[2] <= q[2])
DomainLists(n) ==
    {<<>>} \cup
    UNION {{[i \in 1 .. k |-> Domain(i, ps[i][1], ps[i][2])] :
              ps \in {qs \in [1 .. k -> {p \in DomainPairs(n) : p[1] <= p[2]}] :
                         \A i \in 1 .. (k - 1) : PairLE(qs[i], qs[i + 1])}} :
           k \in 1 .. MaxDomains}

NoCall == [fn |-> "none"]
NoOut == [done |-> FALSE]
NoBih == [called |-> FALSE]
NoRet == [kind |-> "none", value |-> <<>>]

Init ==
    /\ \/ \E n \in 1 .. MaxSeqLen : \E ds \in DomainLists(n) : protein = Protein(n, ds)
       \/ protein = NotAProtein
    /\ length \in LengthProfiles
    /\ overlap \in OverlapProfiles
    /\ \/ ValidParams(length, overlap)
       \/ protein = Protein(1, <<>>)
       \/ protein = NotAProtein
    /\ len_increase \in 1 .. MaxIncrease
    /\ requested_max = length.max
    /\ pc = "start"
    /\ subsections = <<>>
    /\ next_subsections = <<>>
    /\ fragments = <<>>
    /\ idx = 0
    /\ max_len = 0
    /\ original_max_len = 0
    /\ event = "none"
    /\ bih = NoBih
    /\ timeouts = 0
    /\ ret = NoRet
    /\ call = NoCall
    /\ out = NoOut

\* fragments.sort(): tuples in lexicographic order.
FragLE(f, g) == f[1] < g[1] \/ (f[1] = g[1] /\ f[2] <= g[2])

RECURSIVE InsertFrag(_, _)
InsertFrag(sorted, f) ==
    IF sorted = <<>> THEN <<f>>
    ELSE IF FragLE(Head(sorted), f)
         THEN <<Head(sorted)>> \o InsertFrag(Tail(sorted), f)
         ELSE <<f>> \o sorted

RECURSIVE SortFragments(_)
SortFragments(frags) ==
    IF frags = <<>> THEN <<>>
    ELSE InsertFrag(SortFragments(Tail(frags)), Head(frags))

\* validate_fragmentation_parameters(protein, length, overlap)
Validate ==
    /\ pc = "start"
    /\ IF ~protein.isProtein
       THEN /\ pc' = "raised"
            /\ event' = "raise"
            /\ ret' = [kind |-> "TypeError", value |-> <<>>]
       ELSE IF ValidParams(length, overlap)
       THEN /\ pc' = "validated"
            /\ event' = "validated"
            /\ ret' = ret
       ELSE /\ pc' = "raised"
            /\ event' = "raise"
            /\ ret' = [kind |-> "ValueError", value |-> <<>>]
    /\ UNCHANGED <<protein, length, overlap, len_increase, requested_max, subsections,
                   next_subsections, fragments, idx, max_len, original_max_len,
                   bih, timeouts, call, out>>

\* The control after one subsection is finished (or before the first):
\* the next subsection of the round, else the next round, else the sort and
\* the return.  frs and nxt are the fragments and the queued halves so far,
\* len the (possibly widened) length profile.
Proceed(subs, i, nxt, frs, len) ==
    IF i <= Len(subs)
    THEN /\ subsections' = subs
         /\ idx' = i
         /\ next_subsections' = nxt
         /\ fragments' = frs
         /\ max_len' = len.max
         /\ original_max_len' = len.max
         /\ pc' = "loop"
         /\ ret' = ret
    ELSE IF nxt # <<>>
    THEN /\ subsections' = nxt
         /\ idx' = 1
         /\ next_subsections' = <<>>
         /\ fragments' = frs
         /\ max_len' = len.max
         /\ original_max_len' = len.max
         /\ pc' = "loop"
         /\ ret' = ret
    ELSE /\ subsections' = <<>>
         /\ idx' = 0
         /\ next_subsections' = <<>>
         /\ fragments' = SortFragments(frs)
         /\ max_len' = max_len
         /\ original_max_len' = original_max_len
         /\ pc' = "done"
         /\ ret' = [kind |-> "list", value |-> SortFragments(frs)]

Raise(kind) ==
    /\ pc' = "raised"
    /\ ret' = [kind |-> kind, value |-> <<>>]
    /\ UNCHANGED <<subsections, next_subsections, fragments, idx, max_len,
                   original_max_len>>

\* subsections, fragments = handle_long_domains(protein, length, overlap)
HandleLongDomains ==
    /\ pc = "validated"
    /\ LET r == handle_long_domains(protein, length, overlap) IN
       IF r.raised
       THEN /\ Raise("ValueError")
            /\ event' = "raise"
       ELSE /\ Proceed(r.subsections, 1, <<>>, r.fragments, length)
            /\ event' = "long_domains"
    /\ UNCHANGED <<protein, length, overlap, len_increase, requested_max, bih, timeouts, call, out>>

\* Mutant of WholeFragment: the end is not converted to a slicing index.
WholeFragment_InclusiveEnd(subsection) == <<subsection.first_res, subsection.last_res>>

\* The subsection as one fragment.
WholeFragment(subsection) == <<subsection.first_res, subsection.last_res + 1>>

\* The length check at the top of the inner loop.
FitsMaxLen(subsection, maxlen) == subsection.seqlen <= maxlen

\* One pass of the inner loop that ends at the length check: the subsection
\* is one fragment.
SingleFragment ==
    /\ pc = "loop"
    /\ LET subsection == subsections[idx] IN
       /\ FitsMaxLen(subsection, max_len)
       /\ Proceed(subsections, idx + 1, next_subsections,
                  Append(fragments, WholeFragment(subsection)), length)
    /\ event' = "single"
    /\ UNCHANGED <<protein, length, overlap, len_increase, requested_max, bih, timeouts, call, out>>

\* Mutant of Widened: a plain failure leaves max_len as it was.
Widened_Stuck(subsection, maxlen, increase) == IntMin(maxlen, subsection.seqlen)

\* The widened max_len after a plain failure.
Widened(subsection, maxlen, increase) == IntMin(maxlen + increase, subsection.seqlen)

\* Mutant of WidenedProfile: the widened value stays in the local max_len.
WidenedProfile_Unwritten(len, maxlen) == len

\* length['max'] = max_len: the caller's profile with the widened value.
WidenedProfile(len, maxlen) == [len EXCEPT !.max = maxlen]

\* One pass of the inner loop that runs the search: recursive_fragmentation
\* is given original_max_len where its accumulator belongs; the deadline
\* passes after budget checks.
Search ==
    /\ pc = "loop"
    /\ LET subsection == subsections[idx]
           merged_domains == merge_overlapping_domains(subsection.domain_list)
       IN
       /\ ~FitsMaxLen(subsection, max_len)
       /\ \E budget \in (IF timeouts < MaxTimeouts THEN 0 ELSE 1) .. MaxBudget :
          LET result == recursive_fragmentation(subsection, merged_domains,
                            subsection.first_res, length, overlap,
                            IntCutpoints, budget)
          IN
          IF result.kind = "TIME_LIMIT_EXCEEDED"
          THEN LET halves == break_in_half(protein, subsection, length, overlap) IN
               /\ bih' = [called |-> TRUE, sub |-> subsection, kind |-> halves.kind,
                          halves |-> halves.halves, bounds |-> halves.bounds,
                          cut |-> halves.cut]
               /\ length' = length
               /\ timeouts' = timeouts + 1
               /\ IF halves.kind = "None"
                  THEN /\ Proceed(subsections, idx + 1, next_subsections,
                                  Append(fragments, WholeFragment(subsection)), length)
                       /\ event' = "whole_after_timeout"
                  ELSE IF halves.kind = "halves"
                  THEN /\ Proceed(subsections, idx + 1,
                                  next_subsections \o halves.halves, fragments, length)
                       /\ event' = "bisect"
                  ELSE /\ Raise(halves.kind)
                       /\ event' = "raise"
          ELSE IF result.kind = "None"
          THEN /\ max_len' = Widened(subsection, max_len, len_increase)
               /\ length' = WidenedProfile(length,
                                            Widened(subsection, max_len, len_increase))
               /\ event' = "widen"
               /\ UNCHANGED <<pc, subsections, next_subsections, fragments, idx,
                              original_max_len, bih, timeouts, ret>>
          ELSE IF result.kind = "list"
          THEN /\ Proceed(subsections, idx + 1, next_subsections,
                          fragments \o result.cutpoints.items, length)
               /\ event' = "searched"
               /\ UNCHANGED <<length, bih, timeouts>>
          ELSE /\ Raise(result.kind)
               /\ event' = "raise"
               /\ UNCHANGED <<length, bih, timeouts>>
    /\ UNCHANGED <<protein, overlap, len_increase, requested_max, call, out>>

Next == Validate \/ HandleLongDomains \/ SingleFragment \/ Search

Spec == Init /\ [][Next]_vars

\* fragment_protein has returned or raised.
Halted == pc \in {"done", "raised"}

\* fragment_protein runs to its end: a call that has neither returned nor
\* raised takes its next step. Next can change the state exactly when the
\* call is not Halted, so this is weak fairness of Next, written without
\* ENABLED.
SpecLive == Spec /\ ([]<>Halted \/ []<><<Next>>_vars)

\* fragment_protein called on proteins with two domains, long enough to hold
\* a subsection that needs widening before a later one, with profiles that
\* pass validation.
InitWiden ==
    /\ \E n \in 1 .. MaxWidenSeqLen :
       \E ds \in {l \in DomainLists(n) : Len(l) = 2} : protein = Protein(n, ds)
    /\ length \in LengthProfiles
    /\ overlap \in OverlapProfiles
    /\ ValidParams(length, overlap)
    /\ len_increase \in 1 .. MaxIncrease
    /\ requested_max = length.max
    /\ pc = "start"
    /\ subsections = <<>>
    /\ next_subsections = <<>>
    /\ fragments = <<>>
    /\ idx = 0
    /\ max_len = 0
    /\ original_max_len = 0
    /\ event = "none"
    /\ bih = NoBih
    /\ timeouts = 0
    /\ ret = NoRet
    /\ call = NoCall
    /\ out = NoOut

SpecWiden == InitWiden /\ [][Next]_vars

(***************************************************************************)
(* The pure functions, applied to inputs drawn from bounded sets.          *)
(***************************************************************************)
\* The orchestrator's variables while a pure function is under check.
Idle ==
    /\ protein = Protein(1, <<>>)
    /\ length = Profile(1, 1, 1)
    /\ overlap = Profile(0, 0, 0)
    /\ len_increase = 1
    /\ requested_max = 1
    /\ pc = "idle"
    /\ subsections = <<>>
    /\ next_subsections = <<>>
    /\ fragments = <<>>
    /\ idx = 0
    /\ max_len = 0
    /\ original_max_len = 0
    /\ event = "none"
    /\ bih = NoBih
    /\ timeouts = 0
    /\ ret = NoRet

orchestrator == <<protein, length, overlap, len_increase, requested_max, pc, subsections,
                  next_subsections, fragments, idx, max_len, original_max_len,
                  event, bih, timeouts, ret>>

\* All lists of at most k domains over residues 0..maxpos, in any order,
\* with ids 1, 2, ... in list order.
AnyDomainLists(maxpos, k) ==
    UNION {{[i \in 1 .. m |-> Domain(i, ps[i][1], ps[i][2])] :
              ps \in [1 .. m -> {p \in DomainPairs(maxpos + 1) : p[1] <= p[2]}]} :
           m \in 0 .. k}

CutCall(res, domains, sequence_end) ==
    [fn |-> "check_valid_cutpoint", res |-> res, domains |-> domains,
     sequence_end |-> sequence_end]

\* The cases of the documentation: Domain(1, 10) in a sequence ending at 10,
\* cut at 5, 10 and 11.
DocCutCalls ==
    {CutCall(r, <<Domain(1, 1, 10)>>, 10) : r \in {5, 10, 11}}

InitCut ==
    /\ Idle
    /\ \/ \E res \in (0 - 1) .. (MaxCutPos + 2) :
          \E domains \in AnyDomainLists(MaxCutPos, MaxCutDomains) :
          \E sequence_end \in 0 .. MaxCutPos :
             call = CutCall(res, domains, sequence_end)
       \/ call \in DocCutCalls
    /\ out = NoOut

ApplyCheckValidCutpoint ==
    /\ call.fn = "check_valid_cutpoint"
    /\ ~out.done
    /\ out' = [done |-> TRUE,
               val |-> check_valid_cutpoint(call.res, call.domains, call.sequence_end)]
    /\ UNCHANGED <<orchestrator, call>>

NextCut == ApplyCheckValidCutpoint

SpecCut == InitCut /\ [][NextCut]_vars

InitMerge ==
    /\ Idle
    /\ \E domains \in AnyDomainLists(MaxMergePos, MaxMergeDomains) :
          call = [fn |-> "merge_overlapping_domains", domains |-> domains]
    /\ out = NoOut

ApplyMergeOverlappingDomains ==
    /\ call.fn = "merge_overlapping_domains"
    /\ ~out.done
    /\ out' = [done |-> TRUE, val |-> merge_overlapping_domains(call.domains)]
    /\ UNCHANGED <<orchestrator, call>>

NextMerge == ApplyMergeOverlappingDomains

SpecMerge == InitMerge /\ [][NextMerge]_vars

\* handle_long_domains applied to proteins whose domains may reach one
\* residue past the end of the sequence, with profiles that pass validation.
InitLong ==
    /\ Idle
    /\ \E n \in 1 .. MaxSeqLen : \E ds \in DomainLists(n + 1) :
       \E len \in LengthProfiles : \E ov \in OverlapProfiles :
          /\ ValidParams(len, ov)
          /\ call = [fn |-> "handle_long_domains",
                     protein |-> [Protein(n, <<>>) EXCEPT !.domain_list = ds],
                     length |-> len, overlap |-> ov]
    /\ out = NoOut

ApplyHandleLongDomains ==
    /\ call.fn = "handle_long_domains"
    /\ ~out.done
    /\ out' = [done |-> TRUE,
               val |-> handle_long_domains(call.protein, call.length, call.overlap)]
    /\ UNCHANGED <<orchestrator, call>>

NextLong == ApplyHandleLongDomains

SpecLong == InitLong /\ [][NextLong]_vars

\* handle_long_domains applied to proteins with two domains, which may
\* reach two residues past the end of the sequence, with profiles that pass
\* validation.
InitGap ==
    /\ Idle
    /\ \E n \in 1 .. MaxGapSeqLen :
       \E ds \in {l \in DomainLists(n + 2) : Len(l) = 2} :
       \E len \in LengthProfiles : \E ov \in OverlapProfiles :
          /\ ValidParams(len, ov)
          /\ call = [fn |-> "handle_long_domains",
                     protein |-> [Protein(n, <<>>) EXCEPT !.domain_list = ds],
                     length |-> len, overlap |-> ov]
    /\ out = NoOut

SpecGap == InitGap /\ [][NextLong]_vars

\* recursive_fragmentation called as its tests call it: a whole protein, an
\* empty accumulator, fragment_start = first_res, profiles that pass
\* validation, with no time limit or a deadline that passes after some
\* deadline checks.
InitSearch ==
    /\ Idle
    /\ \E n \in 1 .. MaxSeqLen :
       \E ds \in {l \in DomainLists(n) : Len(l) <= MaxSearchDomains} :
       \E len \in LengthProfiles : \E ov \in OverlapProfiles :
       \E budget \in {NoLimit} \cup (0 .. MaxSearchBudget) :
          /\ ValidParams(len, ov)
          /\ call = [fn |-> "recursive_fragmentation",
                     protein |-> Protein(n, ds), domains |-> ds,
                     length |-> len, overlap |-> ov, budget |-> budget]
    /\ out = NoOut

ApplyRecursiveFragmentation ==
    /\ call.fn = "recursive_fragmentation"
    /\ ~out.done
    /\ out' = [done |-> TRUE,
               val |-> recursive_fragmentation(call.protein, call.domains,
                          call.protein.first_res, call.length, call.overlap,
                          ListCutpoints(<<>>), call.budget)]
    /\ UNCHANGED <<orchestrator, call>>

NextSearch == ApplyRecursiveFragmentation

SpecSearch == InitSearch /\ [][NextSearch]_vars

\* recursive_fragmentation as it calls itself: any fragment_start in the
\* protein and an accumulator that already holds cutpoints, profiles that
\* pass validation, with no time limit or a deadline that passes after some
\* deadline checks.
Accumulators ==
    {[i \in 1 .. k |-> <<i - 1, i>>] : k \in 0 .. MaxAccumulated}

InitNested ==
    /\ Idle
    /\ \E n \in 1 .. MaxSeqLen :
       \E ds \in {l \in DomainLists(n) : Len(l) <= MaxSearchDomains} :
       \E len \in LengthProfiles : \E ov \in OverlapProfiles :
       \E fragment_start \in 0 .. (n - 1) : \E items \in Accumulators :
       \E budget \in {NoLimit} \cup (0 .. MaxBudget) :
          /\ ValidParams(len, ov)
          /\ call = [fn |-> "recursive_fragmentation (nested)",
                     protein |-> Protein(n, ds), domains |-> ds,
                     fragment_start |-> fragment_start,
                     length |-> len, overlap |-> ov,
                     cutpoints |-> ListCutpoints(items), budget |-> budget]
    /\ out = NoOut

ApplyNestedFragmentation ==
    /\ call.fn = "recursive_fragmentation (nested)"
    /\ ~out.done
    /\ out' = [done |-> TRUE,
               val |-> recursive_fragmentation(call.protein, call.domains,
                          call.fragment_start, call.length, call.overlap,
                          call.cutpoints, call.budget)]
    /\ UNCHANGED <<orchestrator, call>>

NextNested == ApplyNestedFragmentation

SpecNested == InitNested /\ [][NextNested]_vars

\* PAE matrices for find_domains_from_pae, by description.  A uniform
\* matrix holds the value v everywhere.  A sparse matrix is 0 on the
\* diagonal, 111 elsewhere, and holds a low value at a few confident pairs:
\* confident maps pairs <<i, j>> of residues, i < j at least 5 apart, to the
\* value, which sits above the diagonal when i + j < n and below it otherwise.
UniformPae(n, v) == [uniform |-> TRUE, n |-> n, v |-> v, confident |-> <<>>]

SparsePae(n, confident) == [uniform |-> FALSE, n |-> n, v |-> 111, confident |-> confident]

\* The entry of the described matrix at row r, column c (residues).
PaeEntry(desc, r, c) ==
    IF desc.uniform THEN desc.v
    ELSE IF r = c THEN 0
    ELSE LET p == IF r < c THEN <<r, c>> ELSE <<c, r>>
         IN IF p \in DOMAIN desc.confident /\ ((r < c) = (p[1] + p[2] < desc.n))
            THEN desc.confident[p] ELSE desc.v

\* The matrix as the function receives it.
PaeMatrix(desc) ==
    [r \in 1 .. desc.n |-> [c \in 1 .. desc.n |-> PaeEntry(desc, r - 1, c - 1)]]

\* The sets of at most k of the pairs, built in ascending order.
RECURSIVE PairSets(_, _)
PairSets(pairs, k) ==
    IF k = 0 THEN {{}}
    ELSE LET smaller == PairSets(pairs, k - 1)
         IN smaller \cup
            UNION {{S \cup {p} :
                      p \in {q \in pairs : \A g \in S : g # q /\ PairLE(g, q)}} :
                   S \in smaller}

ConfidentMaps(n) ==
    UNION {[S -> {1, 3}] :
             S \in PairSets({q \in (0 .. (n - 1)) \X (0 .. (n - 1)) : q[2] - q[1] >= 5},
                            MaxConfident)}

\* The custom thresholds of the model.
CustomParams ==
    [given |-> TRUE, res_dist_cutoff |-> 6, close_pae_val |-> 2, further_pae_val |-> 4]

PaeCall(desc, method) ==
    [fn |-> "find_domains_from_pae", pae |-> desc, method |-> method,
     custom_params |-> IF method = "custom" THEN CustomParams ELSE NoCustomParams]

InitPae ==
    /\ Idle
    /\ \/ \E n \in 1 .. MaxPaeLen : \E v \in {0 - 1, 1, 3, 5, 30} :
          \E method \in {"cautious", "definite", "custom"} :
             call = PaeCall(UniformPae(n, v), method)
       \/ \E n \in 6 .. MaxPaeLen : \E confident \in ConfidentMaps(n) :
          \E method \in {"cautious", "definite", "custom"} :
             call = PaeCall(SparsePae(n, confident), method)
    /\ out = NoOut

ApplyFindDomainsFromPae ==
    /\ call.fn = "find_domains_from_pae"
    /\ ~out.done
    /\ out' = [done |-> TRUE,
               val |-> find_domains_from_pae(PaeMatrix(call.pae), call.method,
                                             call.custom_params)]
    /\ UNCHANGED <<orchestrator, call>>

NextPae == ApplyFindDomainsFromPae

SpecPae == InitPae /\ [][NextPae]_vars

\* Protein.add_fragment, called any number of times on one protein whose
\* fragment list starts empty. The protein is a whole protein of 0 to
\* MaxFragSeqLen residues or a subsection of one.
FragProteins ==
    {Protein(n, <<>>) : n \in 0 .. MaxFragSeqLen}
    \cup UNION {{ProteinSubsection(Protein(n, <<>>), fl[1], fl[2]) :
                    fl \in {x \in (0 .. (n - 1)) \X (0 .. (n - 1)) :
                              SubsectionOK(Protein(n, <<>>), x[1], x[2])}} :
                 n \in 1 .. MaxFragSeqLen}

FragPositions == (0 - 1) .. (MaxFragSeqLen + 1)

FragArgs ==
    {FragmentArgs(shape, TRUE, start, end) :
        shape \in {"two", "tuple"}, start \in FragPositions,
        end \in FragPositions}
    \cup {FragmentArgs(shape, FALSE, 0, 0) : shape \in {"two", "tuple"}}
    \cup {FragmentArgs(shape, FALSE, 0, 0) : shape \in {"badtuple", "other"}}

NoFragArgs == FragmentArgs("none", FALSE, 0, 0)

InitFrag ==
    /\ Idle
    /\ \E p \in FragProteins :
          call = [fn |-> "add_fragment", protein |-> p, fragment_list |-> <<>>,
                  args |-> NoFragArgs, before |-> <<>>]
    /\ out = [done |-> FALSE, val |-> [kind |-> "None"]]

\* One call of add_fragment; call.before keeps the list the call found.
CallAddFragment ==
    /\ call.fn = "add_fragment"
    /\ Len(call.fragment_list) < MaxFragments
    /\ \E args \in FragArgs :
          LET result == add_fragment(call.protein, call.fragment_list, args) IN
          /\ call' = [call EXCEPT !.args = args,
                                  !.before = call.fragment_list,
                                  !.fragment_list = result.fragment_list]
          /\ out' = [done |-> TRUE, val |-> [kind |-> result.kind]]
    /\ UNCHANGED orchestrator

NextFrag == CallAddFragment

SpecFrag == InitFrag /\ [][NextFrag]_vars

(***************************************************************************)
(* Properties of fragment_protein (specification Spec).                    *)
(***************************************************************************)
Returned == pc = "done" /\ ret.kind = "list"

ConsecutivePairs(frs) == 1 .. (Len(frs) - 1)

\* C1: the sorted list fragment_protein returns covers
\* [first_res, last_res+1) without gaps: it starts at protein.first_res,
\* ends at protein.last_res+1, and each fragment starts no later than the
\* end of the one before it.
C1_GaplessCoverage ==
    Returned =>
        /\ Len(ret.value) >= 1
        /\ ret.value[1][1] = protein.first_res
        /\ ret.value[Len(ret.value)][2] = protein.last_res + 1
        /\ \A i \in ConsecutivePairs(ret.value) :
              ret.value[i + 1][1] <= ret.value[i][2]

\* C2: every consecutive pair (s0,e0),(s1,e1) of the returned list overlaps
\* by overlap.min <= e0 - s1 <= overlap.max.
C2_OverlapWithinBounds ==
    Returned =>
        \A i \in ConsecutivePairs(ret.value) :
           LET actual_overlap == ret.value[i][2] - ret.value[i + 1][1]
           IN overlap.min <= actual_overlap /\ actual_overlap <= overlap.max

\* C3: no boundary c of a returned fragment lies inside a domain (residues
\* c-1 and c both in the domain), except c = last_res+1.
C3_NoBoundaryInsideDomain ==
    Returned =>
        \A i \in DOMAIN ret.value : \A c \in {ret.value[i][1], ret.value[i][2]} :
           \A j \in DOMAIN protein.domain_list :
              \/ c = protein.last_res + 1
              \/ ~(protein.domain_list[j].start < c /\ c <= protein.domain_list[j].end)

\* A step in which the search of the current subsection met the deadline
\* and break_in_half found no midpoint.
FailedBisectionStep ==
    /\ pc = "loop"
    /\ timeouts' = timeouts + 1
    /\ break_in_half(protein, subsections[idx], length, overlap).kind = "None"

\* C4 as stated: when the search times out and break_in_half returns None,
\* fragment_protein raises an error and returns no fragment list.
C4_RaisesOnFailedBisection ==
    [][FailedBisectionStep => (pc' = "raised" /\ ret'.kind \notin {"none", "list"})]_vars

\* C4 as the code has it: when the search times out and break_in_half
\* returns None, fragment_protein raises nothing; it emits the subsection
\* whole, as the one fragment (first_res, last_res+1), and goes on.
C4_WholeSubsectionOnFailedBisection ==
    [][FailedBisectionStep =>
         /\ pc' \in {"loop", "done"}
         /\ ret'.kind \in {"none", "list"}
         /\ \E k \in DOMAIN fragments' :
               fragments'[k] = <<subsections[idx].first_res,
                                 subsections[idx].last_res + 1>>]_vars

C4_Witness ==
    /\ event = "whole_after_timeout"
    /\ bih.called /\ bih.kind = "None"
    /\ pc \in {"loop", "done"}

\* C5: a protein shorter than length.max (valid profiles, domains inside
\* the protein) makes fragment_protein return exactly one fragment,
\* (first_res, last_res+1), also when it is shorter than length.min.
C5_ShortProteinOneFragment ==
    (/\ pc \in {"done", "raised"}
     /\ protein.isProtein
     /\ ValidParams(length, overlap)
     /\ protein.seqlen < length.max)
    => (/\ ret.kind = "list"
        /\ ret.value = <<<<protein.first_res, protein.last_res + 1>>>>)

C5_Witness ==
    /\ pc = "done"
    /\ protein.seqlen < length.min
    /\ protein.domain_list # <<>>
    /\ ret.value = <<<<0, protein.seqlen>>>>

\* break_in_half accepted a cut for a subsection whose search timed out.
CutAccepted == bih.called /\ bih.cut # NoneVal

HalfLen(h) == h.last_res - h.first_res + 1

\* C6: each of the two halves break_in_half makes of a subsection whose
\* search timed out has length last_res - first_res + 1 >= length.min.
C6_HalvesAtLeastMinLen ==
    CutAccepted => \A i \in 1 .. 2 : HalfLen(bih.bounds[i]) >= length.min

\* C7: neither half break_in_half makes splits a domain: no domain d has
\* d.start <= first_half.last_res < d.end, and none has
\* d.start < second_half.first_res <= d.end.
C7_HalvesSplitNoDomain ==
    CutAccepted =>
        \A j \in DOMAIN protein.domain_list :
           LET d == protein.domain_list[j] IN
           /\ ~(d.start <= bih.bounds[1].last_res /\ bih.bounds[1].last_res < d.end)
           /\ ~(d.start < bih.bounds[2].first_res /\ bih.bounds[2].first_res <= d.end)

(***************************************************************************)
(* Properties of check_valid_cutpoint (specification SpecCut).             *)
(***************************************************************************)
CutDone == call.fn = "check_valid_cutpoint" /\ out.done

\* Some domain holds both residue r-1 and residue r.
Bisected(r, domains) ==
    \E i \in DOMAIN domains : domains[i].start <= r - 1 /\ r <= domains[i].end

CutIff ==
    out.val = (/\ 0 <= call.res
               /\ call.res <= call.sequence_end + 1
               /\ (call.res = call.sequence_end + 1 \/ ~Bisected(call.res, call.domains)))

InsideSequence(domains, sequence_end) ==
    \A i \in DOMAIN domains : domains[i].end <= sequence_end

\* C8 as stated: check_valid_cutpoint(r, domains, last_res) is True exactly
\* when 0 <= r <= last_res+1 and (r = last_res+1 or no domain holds both r-1
\* and r); with a single domain d the cuts r = 0, r = d.start and
\* r = d.end+1 are valid; a cut at the residue two domains share
\* (d1.end = d2.start) is invalid.
C8_ValidCutAsStated ==
    CutDone =>
        /\ CutIff
        /\ (Len(call.domains) = 1 /\
            call.res \in {0, call.domains[1].start, call.domains[1].end + 1})
           => out.val
        /\ (Len(call.domains) = 2 /\
            \E i, j \in 1 .. 2 : /\ i # j
                                 /\ call.domains[i].end = call.domains[j].start
                                 /\ call.res = call.domains[i].end)
           => ~out.val

\* C8 amended: the same equivalence; the single-domain cuts r = 0,
\* r = d.start and r = d.end+1 are valid when d lies inside the sequence
\* (d.end <= last_res); a cut at the residue two such domains share is
\* invalid when the domain ending there has more than one residue.
C8_ValidCut ==
    CutDone =>
        /\ CutIff
        /\ (Len(call.domains) = 1 /\ InsideSequence(call.domains, call.sequence_end) /\
            call.res \in {0, call.domains[1].start, call.domains[1].end + 1})
           => out.val
        /\ (Len(call.domains) = 2 /\ InsideSequence(call.domains, call.sequence_end) /\
            \E i, j \in 1 .. 2 : /\ i # j
                                 /\ call.domains[i].end = call.domains[j].start
                                 /\ call.domains[i].start < call.domains[i].end
                                 /\ call.res = call.domains[i].end)
           => ~out.val

C8_Witness ==
    /\ CutDone
    /\ Len(call.domains) = 2
    /\ InsideSequence(call.domains, call.sequence_end)
    /\ call.domains[1].start < call.domains[1].end
    /\ call.domains[1].end = call.domains[2].start
    /\ call.res = call.domains[1].end
    /\ ~out.val

\* A call with one domain that lies inside the sequence.
OneDomainCall ==
    /\ CutDone
    /\ Len(call.domains) = 1
    /\ InsideSequence(call.domains, call.sequence_end)

\* C9 as stated: a cut at a domain's end index is always legal,
\* check_valid_cutpoint(d.end, [d], last_res) is True; r = 10 with
\* Domain(1,10) and last_res = 10 is True, r = 5 is False.
C9_CutAtDomainEndLegal ==
    (OneDomainCall /\ call.res = call.domains[1].end) => out.val

\* C9 amended: the always-legal cut is the one after the domain's last
\* residue, check_valid_cutpoint(d.end+1, [d], last_res) is True; a cut at
\* d.end itself is legal only for a one-residue domain.  r = 10 with
\* Domain(1,10) and last_res = 10 is False, r = 11 is True, r = 5 is False.
C9_CutAfterDomainEndLegal ==
    /\ (OneDomainCall /\ call.res = call.domains[1].end + 1) => out.val
    /\ (OneDomainCall /\ call.res = call.domains[1].end)
          => (out.val = (call.domains[1].start = call.domains[1].end))
    /\ (CutDone /\ call \in DocCutCalls) => (out.val = (call.res = 11))

C9_Witness ==
    /\ CutDone
    /\ call = CutCall(10, <<Domain(1, 1, 10)>>, 10)
    /\ ~out.val

(***************************************************************************)
(* Properties of merge_overlapping_domains (specification SpecMerge).      *)
(***************************************************************************)
MergeDone == call.fn = "merge_overlapping_domains" /\ out.done

Residues(domains) ==
    UNION {domains[i].start .. domains[i].end : i \in DOMAIN domains}

\* Two domains hold a common residue.
Shares(a, b) == a.start <= b.end /\ b.start <= a.end

\* The inputs chained to those of S by common residues.
RECURSIVE Chained(_, _)
Chained(domains, S) ==
    LET T == S \cup {j \in DOMAIN domains :
                       \E i \in S : Shares(domains[i], domains[j])}
    IN IF T = S THEN S ELSE Chained(domains, T)

Groups(domains) == {Chained(domains, {i}) : i \in DOMAIN domains}

GroupSpan(domains, G) ==
    <<SetMin({domains[i].start : i \in G}), SetMax({domains[i].end : i \in G})>>

\* C10: merge_overlapping_domains returns, sorted by start, one domain per
\* maximal group of inputs chained by common residues, from the group's
\* least start to its greatest end: the outputs are pairwise disjoint, hold
\* exactly the residues of the inputs, and two inputs that only touch stay
\* two domains.
C10_MergePerChainedGroup ==
    MergeDone =>
        LET D == call.domains
            M == out.val
        IN /\ \A i \in 1 .. (Len(M) - 1) : M[i].start < M[i + 1].start
           /\ {<<M[i].start, M[i].end>> : i \in DOMAIN M} =
                 {GroupSpan(D, G) : G \in Groups(D)}
           /\ Len(M) = Cardinality(Groups(D))
           /\ \A i, j \in DOMAIN M : i < j => M[i].end < M[j].start
           /\ Residues(M) = Residues(D)
           /\ (Len(D) = 2 /\ D[2].start = D[1].end + 1) => Len(M) = 2

C10_Witness ==
    /\ MergeDone
    /\ Len(call.domains) = 3
    /\ call.domains[1].start > call.domains[2].start
    /\ Len(out.val) = 2
    /\ out.val[2].start = out.val[1].end + 1

(***************************************************************************)
(* Properties of the validation (specification Spec).                      *)
(***************************************************************************)
\* The profiles break one of the listed constraints.
ProfileViolation(len, ov) ==
    \/ len.min > len.max
    \/ len.ideal < len.min \/ len.ideal > len.max
    \/ ov.min > ov.max
    \/ ov.ideal < ov.min \/ ov.ideal > ov.max
    \/ ov.max >= len.min

\* C11: fragment_protein called with profiles that break a constraint
\* (min > max, ideal outside [min, max], overlap.max >= length.min) raises
\* ValueError, and called with a non-Protein argument raises TypeError,
\* before any long-domain handling or search and with no fragment made.
C11_FailsFastOnInvalidInput ==
    (pc # "start" /\ (~protein.isProtein \/ ProfileViolation(length, overlap)))
    => /\ pc = "raised"
       /\ event = "raise"
       /\ ret.kind = (IF protein.isProtein THEN "ValueError" ELSE "TypeError")
       /\ ret.value = <<>>
       /\ fragments = <<>> /\ subsections = <<>> /\ ~bih.called

C11_Witness ==
    /\ pc = "raised"
    /\ protein.isProtein
    /\ length.min <= length.ideal /\ length.ideal <= length.max
    /\ overlap.min <= overlap.ideal /\ overlap.ideal <= overlap.max
    /\ overlap.max >= length.min
    /\ ret.kind = "ValueError"

(***************************************************************************)
(* Properties of handle_long_domains (specification SpecLong).             *)
(***************************************************************************)
\* handle_long_domains returned (no ProteinSubsection raised).
LongDone == call.fn = "handle_long_domains" /\ out.done /\ ~out.val.raised

\* The merged long domains of the call, by start.
LongDomains == SelectLong(merge_overlapping_domains(call.protein.domain_list),
                          call.length)

\* The chained groups of input domains whose span reaches length.max.
LongGroups ==
    {G \in Groups(call.protein.domain_list) :
       LET span == GroupSpan(call.protein.domain_list, G)
       IN span[2] - span[1] + 1 >= call.length.max}

\* One fragment per long merged domain, in domain order, each holding the
\* residues of its domain that lie inside the protein.
OneFragmentPerLongDomain ==
    /\ Len(out.val.fragments) = Cardinality(LongGroups)
    /\ Len(out.val.fragments) = Len(LongDomains)
    /\ \A i \in DOMAIN LongDomains :
          /\ out.val.fragments[i][1] <= LongDomains[i].start
          /\ IntMin(LongDomains[i].end, call.protein.last_res) < out.val.fragments[i][2]

FragmentLen(f) == f[2] - f[1]

LongBoundary(i) ==
    [start |-> BoundaryStart(call.protein, call.length, LongDomains, LongDomains[i]),
     end |-> BoundaryEnd(call.protein, call.length, LongDomains, LongDomains[i])]

\* C13: when handle_long_domains finds a long domain, every subsection it
\* returns has last_res - first_res + 1 >= length.min and holds no residue
\* of any long-domain boundary [start, end].
C13_SubsectionsViable ==
    (LongDone /\ Len(LongDomains) >= 1) =>
        \A k \in DOMAIN out.val.subsections :
           LET sub == out.val.subsections[k] IN
           /\ sub.last_res - sub.first_res + 1 >= call.length.min
           /\ \A i \in DOMAIN LongDomains :
                 \/ sub.last_res < LongBoundary(i).start
                 \/ LongBoundary(i).end < sub.first_res

(***************************************************************************)
(* Properties of recursive_fragmentation (specification SpecSearch).       *)
(***************************************************************************)
SearchDone == call.fn = "recursive_fragmentation" /\ out.done

\* The search returned a fragment list.
SearchList == SearchDone /\ out.val.kind = "list"

\* C14: every fragment (s,e) of a list recursive_fragmentation returns has
\* length.min <= e - s <= length.max, and every consecutive pair overlaps
\* by overlap.min <= e0 - s1 <= overlap.max.
C14_SearchLengthsAndOverlaps ==
    SearchList =>
        LET frs == out.val.cutpoints.items IN
        /\ \A i \in DOMAIN frs :
              /\ call.length.min <= FragmentLen(frs[i])
              /\ FragmentLen(frs[i]) <= call.length.max
        /\ \A i \in ConsecutivePairs(frs) :
              /\ call.overlap.min <= frs[i][2] - frs[i + 1][1]
              /\ frs[i][2] - frs[i + 1][1] <= call.overlap.max

C14_Witness ==
    /\ SearchList
    /\ Len(out.val.cutpoints.items) >= 3
    /\ call.domains # <<>>
    /\ \E i \in ConsecutivePairs(out.val.cutpoints.items) :
          out.val.cutpoints.items[i][2] - out.val.cutpoints.items[i + 1][1]
             # call.overlap.ideal

\* Is there a chain of fragments from start to last_res+1 with every length
\* in [length.min, length.max], every overlap in [overlap.min, overlap.max]
\* and every fragment end and next start a valid cut?
RECURSIVE FragmentationExists(_, _, _, _, _)
FragmentationExists(p, domains, len, ov, start) ==
    \E l \in len.min .. len.max :
       LET res == start + l IN
       /\ check_valid_cutpoint(res, domains, p.last_res)
       /\ \/ res = p.last_res + 1
          \/ \E o \in ov.min .. ov.max :
                /\ check_valid_cutpoint(res - o, domains, p.last_res)
                /\ FragmentationExists(p, domains, len, ov, res - o)

\* C19: with no time limit, recursive_fragmentation returns a fragment
\* list, not None, whenever a fragmentation within the length and overlap
\* bounds and with valid cuts exists.
C19_SearchComplete ==
    (/\ SearchDone
     /\ call.budget = NoLimit
     /\ FragmentationExists(call.protein, call.domains, call.length,
                            call.overlap, call.protein.first_res))
    => out.val.kind = "list"

\* The same search with a deadline that never passes.
Unlimited ==
    recursive_fragmentation(call.protein, call.domains, call.protein.first_res,
                            call.length, call.overlap, ListCutpoints(<<>>), NoLimit)

\* The number of deadline checks the search makes when none of them fails:
\* what a budget larger than any search of the model has spent at the end.
NumChecks ==
    LET ample == 1000
        r == recursive_fragmentation(call.protein, call.domains,
                 call.protein.first_res, call.length, call.overlap,
                 ListCutpoints(<<>>), ample)
    IN ample - r.budget

\* The deadline passes before a check the search gets to.
DeadlineObserved == call.budget # NoLimit /\ call.budget < NumChecks

PaeDone == call.fn = "find_domains_from_pae" /\ out.done /\ out.val.kind = "list"

\* C15: the domains find_domains_from_pae returns are pairwise
\* non-overlapping: no residue belongs to two of them.
C15_PaeDomainsDisjoint ==
    PaeDone =>
        \A i, j \in DOMAIN out.val.domains :
           i # j => \/ out.val.domains[i].end < out.val.domains[j].start
                    \/ out.val.domains[j].end < out.val.domains[i].start

\* Two domains, the first one extended past the pair that started it.
C15_Witness ==
    /\ PaeDone
    /\ Len(out.val.domains) = 2
    /\ <<out.val.domains[1].start, out.val.domains[1].end>>
          \notin DOMAIN call.pae.confident

\* Every entry of the matrix of the call is below both PAE thresholds of
\* the call's method.
AllBelowThresholds ==
    LET params == MethodParams(call.method, call.custom_params) IN
    \A r, c \in 0 .. (call.pae.n - 1) :
       /\ PaeEntry(call.pae, r, c) < params.close_pae_val
       /\ PaeEntry(call.pae, r, c) < params.further_pae_val

\* C16 as stated: on an n-by-n matrix whose entries are all below the close
\* threshold, find_domains_from_pae returns exactly one domain, [0, n-1].
C16_OneDomainAsStated ==
    (PaeDone /\ AllBelowThresholds) =>
        /\ Len(out.val.domains) = 1
        /\ out.val.domains[1].start = 0
        /\ out.val.domains[1].end = call.pae.n - 1

\* C16 amended: on an n-by-n matrix whose entries are all below the
\* thresholds, find_domains_from_pae returns exactly the domain [0, n-1]
\* when n >= 6, and no domain when n <= 5 (no two residues are at least 5
\* apart).
C16_OneDomainFromSixResidues ==
    (PaeDone /\ AllBelowThresholds) =>
        IF call.pae.n >= 6
        THEN /\ Len(out.val.domains) = 1
             /\ out.val.domains[1].start = 0
             /\ out.val.domains[1].end = call.pae.n - 1
        ELSE out.val.domains = <<>>

C16_Witness ==
    /\ PaeDone
    /\ call.method = "cautious"
    /\ call.pae = UniformPae(10, 1)
    /\ Len(out.val.domains) = 1
    /\ out.val.domains[1].end - out.val.domains[1].start + 1 = 10

\* The domains of the cautious preset on the matrix of the call.
CautiousDomains ==
    find_domains_from_pae(PaeMatrix(call.pae), "cautious", NoCustomParams).domains

\* C17 as stated: the definite preset returns at least as many domains as
\* the cautious preset on the same matrix.
C17_DefiniteAtLeastAsMany ==
    (PaeDone /\ call.method = "definite") =>
        Len(out.val.domains) >= Len(CautiousDomains)

\* C17 amended: every domain the definite preset returns lies inside one
\* domain the cautious preset returns on the same matrix (the definite
\* preset groups no residues the cautious preset keeps apart); the number
\* of domains may be smaller or larger.
C17_DefiniteInsideCautious ==
    (PaeDone /\ call.method = "definite") =>
        \A i \in DOMAIN out.val.domains :
           \E j \in DOMAIN CautiousDomains :
              /\ CautiousDomains[j].start <= out.val.domains[i].start
              /\ out.val.domains[i].end <= CautiousDomains[j].end

\* The definite preset splits what the cautious preset returns as one domain.
C17_Witness ==
    /\ PaeDone
    /\ call.method = "definite"
    /\ Len(out.val.domains) = 2
    /\ Len(CautiousDomains) = 1

\* The fragment (start, end) lies inside protein p:
\* first_res <= start < end <= last_res + 1. No fragment lies inside a
\* protein without residues.
InsideProtein(p, start, end) ==
    /\ p.last_res # NoneVal
    /\ p.first_res <= start
    /\ start < end
    /\ end <= p.last_res + 1

\* The last add_fragment call meets both conditions: an integer pair inside
\* the protein that starts no earlier than the fragment stored before it.
CallConforms ==
    /\ call.args.shape \in {"two", "tuple"}
    /\ call.args.ints
    /\ InsideProtein(call.protein, call.args.start, call.args.end)
    /\ call.before # <<>> =>
          call.args.start >= call.before[Len(call.before)][1]

\* C18: after any sequence of add_fragment calls on a protein whose fragment
\* list starts empty, every stored fragment satisfies
\* first_res <= start < end <= last_res+1 and the starts are non-decreasing
\* in insertion order; a call that violates either condition raises
\* ValueError and leaves the fragment list unchanged.
C18_FragmentListInvariant ==
    call.fn = "add_fragment" =>
        /\ \A i \in DOMAIN call.fragment_list :
              InsideProtein(call.protein, call.fragment_list[i][1],
                            call.fragment_list[i][2])
        /\ \A i, j \in DOMAIN call.fragment_list :
              i < j => call.fragment_list[i][1] <= call.fragment_list[j][1]
        /\ (out.done /\ ~CallConforms) =>
              /\ out.val.kind = "ValueError"
              /\ call.fragment_list = call.before

(***************************************************************************)
(* The caller policy of fragment_protein (specification Spec).             *)
(***************************************************************************)
\* A step in which the search of the current subsection returned the
\* timeout signal.
TimeoutStep == pc = "loop" /\ timeouts' = timeouts + 1

\* A step that widens length.max.
WidenStep == length'.max # length.max

\* C21: a subsection whose search returned the timeout signal is never
\* retried with a widened length.max: its next step is its replacement by
\* the two halves of break_in_half (queued for the next round) or its
\* emission as one fragment. Only a plain failure widens length.max, by
\* len_increase capped at the subsection's length, and the same subsection
\* is retried from its first residue.
C21_TimeoutBisectsOrEmits ==
    [][/\ TimeoutStep =>
            /\ ~WidenStep
            /\ \/ /\ event' = "bisect"
                  /\ Len(bih'.halves) = 2
                  /\ fragments' = fragments
               \/ /\ event' = "whole_after_timeout"
                  /\ fragments' = Append(fragments, WholeFragment(subsections[idx]))
       /\ WidenStep =>
            /\ event' = "widen"
            /\ length'.max = IntMin(max_len + len_increase, subsections[idx].seqlen)
            /\ max_len' = length'.max
            /\ pc' = "loop" /\ idx' = idx /\ subsections' = subsections]_vars

\* C22: each half break_in_half returns is strictly shorter than the
\* subsection it was cut from (the first half ends before last_res, the
\* second half starts after first_res), so rounds of timeout and bisection
\* run out of subsections and fragment_protein returns, also when every
\* search times out: an accepted cut yields two such halves and no
\* exception.
C22_BisectionShrinks ==
    CutAccepted =>
        /\ bih.kind = "halves"
        /\ pc # "raised"
        /\ bih.bounds[1].first_res = bih.sub.first_res
        /\ bih.bounds[1].last_res < bih.sub.last_res
        /\ bih.bounds[2].first_res > bih.sub.first_res
        /\ bih.bounds[2].last_res = bih.sub.last_res

\* C23: with len_increase >= 1 and no timeout, the widening loop of one
\* subsection terminates: every plain failure raises max_len (never past
\* the subsection's length), so after finitely many of them max_len is the
\* subsection's length, the length check passes and the subsection is
\* emitted as the single fragment (first_res, last_res+1).
C23_WideningTerminates ==
    /\ [][(pc = "loop" /\ event' = "widen") =>
            /\ max_len < max_len'
            /\ max_len' <= subsections[idx].seqlen
            /\ idx' = idx /\ subsections' = subsections]_vars
    /\ [][(pc = "loop" /\ event = "widen" /\ max_len = subsections[idx].seqlen) =>
            /\ event' = "single"
            /\ fragments' = Append(fragments, <<subsections[idx].first_res,
                                               subsections[idx].last_res + 1>>)]_vars
    /\ (event = "widen") ~> (event # "widen")

\* A subsection emitted whole after two plain failures widened max_len to
\* its length.
C23_Witness ==
    /\ pc = "done"
    /\ event = "single"
    /\ max_len >= original_max_len + 2
    /\ max_len = protein.seqlen
    /\ ret.value = <<<<0, protein.seqlen>>>>

(***************************************************************************)
(* Properties of recursive_fragmentation as it calls itself                *)
(* (specification SpecNested).                                             *)
(***************************************************************************)
NestedDone == call.fn = "recursive_fragmentation (nested)" /\ out.done

\* The number of recursive_fragmentation calls the search of the call makes
\* without a deadline: each call makes one deadline check.
NestedCalls ==
    LET ample == 1000
        r == recursive_fragmentation(call.protein, call.domains,
                 call.fragment_start, call.length, call.overlap,
                 call.cutpoints, ample)
    IN ample - r.budget

\* C24: the accumulator follows a stack discipline: whenever a
\* recursive_fragmentation call returns None, the shared accumulator holds
\* exactly the entries it held when the call was entered, every cutpoint
\* pushed before a failed nested call having been popped.
C24_AccumulatorRestoredOnNone ==
    (NestedDone /\ out.val.kind = "None") =>
        out.val.cutpoints = call.cutpoints

\* A failed search that made nested calls on a non-empty accumulator.
C24_Witness ==
    /\ NestedDone
    /\ out.val.kind = "None"
    /\ call.cutpoints.items # <<>>
    /\ call.budget = NoLimit
    /\ NestedCalls >= 3

\* The place of length l in the order ideal, ideal+1, ..., max, ideal-1,
\* ..., min.
Rank(l, len) ==
    IF l >= len.ideal THEN l - len.ideal
    ELSE (len.max - len.ideal) + (len.ideal - l)

\* A fragment of length l from the start of the call can be completed: its
\* end is a valid cut and either the end of the protein or followed by a
\* next start from which the same search returns a fragment list.
Completes(l) ==
    LET res == call.fragment_start + l
        next_start == find_next_start(res, call.protein, call.domains, call.overlap)
    IN /\ check_valid_cutpoint(res, call.domains, call.protein.last_res)
       /\ \/ res = call.protein.last_res + 1
          \/ /\ next_start # NoneVal /\ next_start # 0
             /\ recursive_fragmentation(call.protein, call.domains, next_start,
                    call.length, call.overlap, ListCutpoints(<<>>),
                    NoLimit).kind = "list"

\* The length of the fragment the call itself added to the accumulator.
ChosenLength ==
    LET f == out.val.cutpoints.items[Len(call.cutpoints.items) + 1]
    IN f[2] - f[1]

\* C25: recursive_fragmentation tries the lengths in the order ideal,
\* ideal+1, ..., max, ideal-1, ..., min at every level and returns the first
\* complete solution in that depth-first order: the fragment a call adds
\* starts at its fragment_start and has the earliest length in that order
\* for which the cut is valid, a next start exists and the rest can be
\* completed by the same search.
C25_EarliestCompletingLength ==
    (NestedDone /\ call.budget = NoLimit /\ out.val.kind = "list") =>
        /\ Len(out.val.cutpoints.items) > Len(call.cutpoints.items)
        /\ SubSeq(out.val.cutpoints.items, 1, Len(call.cutpoints.items))
              = call.cutpoints.items
        /\ out.val.cutpoints.items[Len(call.cutpoints.items) + 1][1]
              = call.fragment_start
        /\ ChosenLength \in call.length.min .. call.length.max
        /\ Completes(ChosenLength)
        /\ \A l \in call.length.min .. call.length.max :
              Rank(l, call.length) < Rank(ChosenLength, call.length)
                 => ~Completes(l)

\* The search backtracked: it chose a length below ideal after a length
\* earlier in the order gave a valid cut that could not be completed.
C25_Witness ==
    /\ NestedDone /\ call.budget = NoLimit /\ out.val.kind = "list"
    /\ ChosenLength < call.length.ideal
    /\ \E l \in call.length.ideal .. call.length.max :
          /\ check_valid_cutpoint(call.fragment_start + l, call.domains,
                                  call.protein.last_res)
          /\ find_next_start(call.fragment_start + l, call.protein,
                             call.domains, call.overlap) \notin {NoneVal, 0}
          /\ ~Completes(l)

\* The start a call passes to its nested call after a fragment of length l,
\* or NoneVal when it makes no nested call for that length.
NestedStart(l) ==
    LET res == call.fragment_start + l
        next_start == find_next_start(res, call.protein, call.domains, call.overlap)
    IN IF /\ check_valid_cutpoint(res, call.domains, call.protein.last_res)
          /\ res # call.protein.last_res + 1
          /\ next_start # NoneVal /\ next_start # 0
       THEN next_start ELSE NoneVal

\* C30: in every recursive_fragmentation call on validated profiles, the
\* start passed to the nested call is strictly greater than the call's own
\* fragment_start (every candidate end is at least fragment_start +
\* length.min, and the overlap is at most overlap.max < length.min), so the
\* search without a time limit ends, with a fragment list or None.
C30_NestedStartAdvances ==
    /\ call.fn = "recursive_fragmentation (nested)" =>
          \A l \in call.length.min .. call.length.max :
             NestedStart(l) # NoneVal => NestedStart(l) > call.fragment_start
    /\ (NestedDone /\ call.budget = NoLimit) =>
          out.val.kind \in {"list", "None"}

\* A search that returned after nested calls made with the largest overlap
\* the profile allows.
C30_Witness ==
    /\ NestedDone /\ call.budget = NoLimit
    /\ call.overlap.max > 0
    /\ \E l \in call.length.min .. call.length.max :
          /\ NestedStart(l) # NoneVal
          /\ NestedStart(l) = call.fragment_start + l - call.overlap.max
          /\ NestedStart(l) = call.fragment_start + 1
    /\ NestedCalls >= 2

(***************************************************************************)
(* The gap between two long domains (specification SpecGap).               *)
(***************************************************************************)
\* The long domains followed by another long domain after a gap of fewer
\* than length.min residues.
GapPairs ==
    {i \in 1 .. (Len(LongDomains) - 1) :
       LongDomains[i + 1].start - LongDomains[i].end - 1 < call.length.min}

\* The boundary of the left domain reaches across the gap to the start of
\* the right domain.
LeftAbsorbs(i) == LongBoundary(i).end >= LongDomains[i + 1].start

\* The boundary of the right domain reaches across the gap to the end of
\* the left domain.
RightAbsorbs(i) == LongBoundary(i + 1).start <= LongDomains[i].end

\* Exactly one domain of the pair absorbs the gap, the shorter one, and the
\* left one when the two are equally long; its fragment covers the gap.
OneAbsorbs(i) ==
    /\ LeftAbsorbs(i) # RightAbsorbs(i)
    /\ LeftAbsorbs(i) =
          (DomainLen(LongDomains[i]) <= DomainLen(LongDomains[i + 1]))
    /\ LeftAbsorbs(i) =>
          out.val.fragments[i][2] >
             IntMin(LongDomains[i + 1].start, call.protein.last_res)
    /\ RightAbsorbs(i) => out.val.fragments[i + 1][1] <= LongDomains[i].end

\* C26 as stated: for two long domains separated by a gap of fewer than
\* length.min residues, exactly one of the two absorbs the gap: the shorter
\* domain extends its boundary across the gap, and when the two have equal
\* length the left domain extends its end while the right one does not
\* extend its start; the gap is never absorbed by both and never left
\* unabsorbed.
C26_OneDomainAbsorbsGapAsStated ==
    LongDone => \A i \in GapPairs : OneAbsorbs(i)

\* C26 amended: the same, for two long domains that lie inside the protein.
\* When the right domain reaches past the end of the sequence, the left
\* domain can be extended to the protein's last residue although it is the
\* longer one, and then both boundaries cover the gap.
C26_OneDomainAbsorbsGap ==
    LongDone =>
        \A i \in GapPairs :
           LongDomains[i + 1].end <= call.protein.last_res => OneAbsorbs(i)

\* The shorter right domain absorbs a gap of at least one residue.
C26_Witness ==
    /\ LongDone
    /\ GapPairs = {1}
    /\ LongDomains[2].end <= call.protein.last_res
    /\ LongDomains[2].start - LongDomains[1].end - 1 >= 1
    /\ RightAbsorbs(1) /\ ~LeftAbsorbs(1)

(***************************************************************************)
(* Cut validity and merging (specification SpecCut).                       *)
(***************************************************************************)
\* C27: cut validity does not depend on whether the domains were merged
\* first: for every domain list, position and last residue,
\* check_valid_cutpoint on the list as given (what handle_long_domains and
\* break_in_half pass) equals check_valid_cutpoint on the list returned by
\* merge_overlapping_domains (what the recursive search is given).
C27_CutValidityIgnoresMerging ==
    out.done =>
        out.val = check_valid_cutpoint(call.res,
                                       merge_overlapping_domains(call.domains),
                                       call.sequence_end)

\* A cut refused at the first residue of a domain that merging folds into
\* the one before it: the two domains share the residue before the cut.
C27_Witness ==
    /\ out.done /\ ~out.val
    /\ Len(call.domains) = 2
    /\ Len(merge_overlapping_domains(call.domains)) = 1
    /\ call.res = call.domains[2].start
    /\ call.domains[1].start < call.res /\ call.domains[1].end = call.res
    /\ call.res < call.sequence_end

(***************************************************************************)
(* The linked pairs of the PAE scan (specification SpecPae).               *)
(***************************************************************************)
\* The steps of the scan of the call at hand.
ScanSteps ==
    PaeSteps(PaeMatrix(call.pae), MethodParams(call.method, call.custom_params),
             0, <<>>)

\* C28: at every step of the scan of find_domains_from_pae, when the first
\* linked pair found for a residue has both residues inside existing
\* domains, the two are inside the same domain, and the second residue is
\* never inside a domain while the first is inside none: the branch that
\* takes no action never skips a merge of two distinct domains.
C28_LinkedPairInOneDomain ==
    (out.done /\ out.val.kind = "list") =>
        \A step \in ScanSteps :
           LET domain_res1 == find_domain_by_res(step.domains, step.res1)
               domain_res2 == find_domain_by_res(step.domains, step.res2)
           IN /\ (domain_res1 # 0 /\ domain_res2 # 0) => domain_res1 = domain_res2
              /\ ~(domain_res1 = 0 /\ domain_res2 # 0)

\* A scan on a sparse matrix that takes the branch without action at one
\* step: both residues of the pair are already in one domain.
C28_Witness ==
    /\ out.done /\ out.val.kind = "list"
    /\ ~call.pae.uniform
    /\ \E step \in ScanSteps :
          /\ find_domain_by_res(step.domains, step.res1) # 0
          /\ find_domain_by_res(step.domains, step.res2) =
                find_domain_by_res(step.domains, step.res1)

(***************************************************************************)
(* The widened length profile (specification SpecWiden).                   *)
(***************************************************************************)
\* The loop moves to another subsection.
NextSubsection ==
    pc' = "loop" /\ <<subsections', idx'>> # <<subsections, idx>>

\* C29: within one fragment_protein call length.max never decreases and a
\* widening is never undone: a plain failure writes the widened max_len into
\* the caller's length profile, and every subsection processed afterwards
\* starts its single-fragment check and its search with the value in the
\* profile, which is at least the widened one.
C29_WideningPersists ==
    /\ [][length'.max >= length.max]_vars
    /\ [][(pc = "loop" /\ event' = "widen") =>
            /\ length'.max = max_len'
            /\ length'.max > length.max]_vars
    /\ [][NextSubsection =>
            /\ max_len' = length'.max
            /\ original_max_len' = length'.max
            /\ length'.max >= requested_max]_vars

\* A subsection after the first is at the top of the loop with a max_len
\* above the requested one: an earlier subsection widened the profile.
C29_Witness ==
    /\ pc = "loop"
    /\ idx >= 2
    /\ length.max > requested_max
    /\ max_len = length.max
    /\ original_max_len = length.max

====
